---- MODULE Spec2Model ----
(***************************************************************************)
(* linked_list_bench: a singly linked list built by head insertion and a   *)
(* timed pointer-chasing traversal.  Two programs share the list code:     *)
(*   "timed"  = src/timed_traversal.rs (wall clock only)                   *)
(*   "cycles" = src/main.rs            (wall clock + lfence/rdtsc)         *)
(* Spec    models a run of either program's main().                        *)
(* SpecLib models the LinkedList API driven by an arbitrary caller.        *)
(***************************************************************************)
EXTENDS Integers, Sequences, FiniteSets, TLC

\* ---------------------------------------------------------------- bounds
MaxArgLen == 2      \* longest command-line argument, in characters
MaxPush   == 12     \* longest list the model builds
MaxTick   == 1      \* largest clock / cycle-counter reading
MaxCalls  == 2      \* traversals recorded between two pushes (SpecLib)
MaxLibNodes == 4    \* longest list the API caller builds (SpecLib)

\* ------------------------------------------------------ program constants
DEFAULT_NODES == 100000

\* ---------------------------------------------------------------- inputs
DigitSeq == <<"0", "1", "2", "3", "4", "5", "6", "7", "8", "9">>
Chars    == {DigitSeq[k] : k \in 1..10} \cup {"a", "-", "+"}
Values   == {0, 1}

RECURSIVE StringsOfLen(_)
StringsOfLen(n) ==
    IF n = 0 THEN {<<>>}
    ELSE {Append(s, c) : s \in StringsOfLen(n - 1), c \in Chars}

ArgStrings == UNION {StringsOfLen(n) : n \in 0..MaxArgLen}

\* argv: the program name, then at most one positional argument
ArgVectors == {<<"prog">>} \cup {<<"prog", s>> : s \in ArgStrings}

VARIABLES
    variant,        \* which program runs: "timed" or "cycles"
    args,           \* std::env::args().collect()
    pc,             \* position in main / in the traversal
    exit_code,      \* -1 while running, process status afterwards
    num_nodes,      \* main's num_nodes
    list,           \* LinkedList { head, count }; head 0 is None
    nodes,          \* the heap: nodes[a] is the Node boxed at address a
    i,              \* loop index of the construction loop
    current,        \* traversal cursor (address, 0 is None)
    visited_count,  \* traversal counter
    start_cycles,   \* first _rdtsc() reading
    end_cycles,     \* second _rdtsc() reading
    ret,            \* value returned by the traversal
    out,            \* lines written to stdout
    err,            \* lines written to stderr
    trace,          \* observable order of allocation, timer and visit events
    results         \* SpecLib: visited counts returned since the last push

vars == <<variant, args, pc, exit_code, num_nodes, list, nodes, i, current,
          visited_count, start_cycles, end_cycles, ret, out, err, trace, results>>

\* ------------------------------------------------------------ str::parse
to_digit(c) ==
    IF \E k \in 1..10 : DigitSeq[k] = c
    THEN (CHOOSE k \in 1..10 : DigitSeq[k] = c) - 1
    ELSE -1

RECURSIVE accumulate(_, _)
\* result = result * 10 + digit, left to right; -1 is Err(InvalidDigit)
accumulate(digits, result) ==
    IF digits = <<>> THEN result
    ELSE IF to_digit(Head(digits)) < 0 THEN -1
    ELSE accumulate(Tail(digits), result * 10 + to_digit(Head(digits)))

\* args[1].parse::<usize>(): Err on "", on a lone sign, on '-', on a non-digit;
\* a leading '+' is accepted.  Arguments of at most MaxArgLen characters stay
\* far below usize::MAX, so Err(PosOverflow) cannot arise here.
parse(s) ==
    IF s = <<>> THEN [ok |-> FALSE, val |-> 0]
    ELSE IF Len(s) = 1 /\ Head(s) \in {"+", "-"} THEN [ok |-> FALSE, val |-> 0]
    ELSE LET digits == IF Head(s) = "+" THEN Tail(s) ELSE s
             v      == accumulate(digits, 0)
         IN  IF v < 0 THEN [ok |-> FALSE, val |-> 0] ELSE [ok |-> TRUE, val |-> v]

\* ------------------------------------------------------------ LinkedList
\* a local that has not been bound yet
Unbound == [head |-> -1, count |-> -1]

new == [head |-> 0, count |-> 0]

\* push with self.count += 1 left out
push_no_count(l, h, data) ==
    [list |-> [head |-> Len(h) + 1, count |-> l.count],
     heap |-> Append(h, [data |-> data, next |-> l.head])]

\* push that forgets the old head: the new node's next is None
push_drop_tail(l, h, data) ==
    [list |-> [head |-> Len(h) + 1, count |-> l.count + 1],
     heap |-> Append(h, [data |-> data, next |-> 0])]

\* push that links the new node behind the newest node instead of before it
push_append(l, h, data) ==
    [list |-> [head |-> IF l.head = 0 THEN Len(h) + 1 ELSE l.head,
               count |-> l.count + 1],
     heap |-> Append([a \in DOMAIN h |->
                        IF a = Len(h) THEN [h[a] EXCEPT !.next = Len(h) + 1]
                        ELSE h[a]],
                     [data |-> data, next |-> 0])]

\* push: new_node = Box::new(Node { data, next: mem::replace(&mut self.head, None) });
\* self.head = Some(new_node); self.count += 1.
\* The new node is boxed at a fresh address of the heap h.
push(l, h, data) ==
    [list |-> [head |-> Len(h) + 1, count |-> l.count + 1],
     heap |-> Append(h, [data |-> data, next |-> l.head])]

\* ------------------------------------------------------------- reporting
Line(m, a, b) == [msg |-> m, a |-> a, b |-> b]

\* ---------------------------------------------------------------- Init
Init ==
    /\ variant \in {"timed", "cycles"}
    /\ args \in ArgVectors
    /\ pc = "main"
    /\ exit_code = -1
    /\ num_nodes = 0
    /\ list = Unbound
    /\ nodes = <<>>
    /\ i = 0
    /\ current = 0
    /\ visited_count = 0
    /\ start_cycles = 0
    /\ end_cycles = 0
    /\ ret = [visited |-> 0, time |-> 0, cycles |-> 0]
    /\ out = <<>>
    /\ err = <<>>
    /\ trace = <<>>
    /\ results = <<>>

Event(e, x) == [ev |-> e, x |-> x]

\* ===================================================== timed_traversal.rs
\* main: args.len() < 2
TT_Usage ==
    /\ variant = "timed" /\ pc = "main"
    /\ Len(args) < 2
    /\ err' = err \o <<Line("usage", 0, 0), Line("example", 0, 0)>>
    /\ pc' = "done"
    /\ exit_code' = 0
    /\ UNCHANGED <<variant, args, num_nodes, list, nodes, i, current,
                   visited_count, start_cycles, end_cycles, ret, out, trace, results>>

\* main: match args[1].parse() { Ok(n) => n, ... }
TT_ParseOk ==
    /\ variant = "timed" /\ pc = "main"
    /\ Len(args) >= 2
    /\ parse(args[2]).ok
    /\ num_nodes' = parse(args[2]).val
    /\ out' = out \o <<Line("banner", 0, 0), Line("list_size", num_nodes', 0)>>
    /\ pc' = "create"
    /\ UNCHANGED <<variant, args, exit_code, list, nodes, i, current,
                   visited_count, start_cycles, end_cycles, ret, err, trace, results>>

\* main: match args[1].parse() { ..., Err(_) => { eprintln!; return } }
TT_ParseErr ==
    /\ variant = "timed" /\ pc = "main"
    /\ Len(args) >= 2
    /\ ~parse(args[2]).ok
    /\ err' = Append(err, Line("invalid_argument", 0, 0))
    /\ pc' = "done"
    /\ exit_code' = 0
    /\ UNCHANGED <<variant, args, num_nodes, list, nodes, i, current,
                   visited_count, start_cycles, end_cycles, ret, out, trace, results>>

\* main: creation_start = Instant::now(); list = LinkedList::new()
TT_Create ==
    /\ variant = "timed" /\ pc = "create"
    /\ trace' = trace \o <<Event("creation_start", 0), Event("new", 0)>>
    /\ list' = new
    /\ i' = 0
    /\ pc' = "build"
    /\ UNCHANGED <<variant, args, exit_code, num_nodes, nodes, current,
                   visited_count, start_cycles, end_cycles, ret, out, err, results>>

\* main: for i in 0..num_nodes { list.push(i) }, one iteration
TT_Push ==
    /\ variant = "timed" /\ pc = "build"
    /\ i < num_nodes
    /\ i < MaxPush
    /\ nodes' = push(list, nodes, i).heap
    /\ list' = push(list, nodes, i).list
    /\ trace' = Append(trace, Event("push", i))
    /\ i' = i + 1
    /\ UNCHANGED <<variant, args, pc, exit_code, num_nodes, current,
                   visited_count, start_cycles, end_cycles, ret, out, err, results>>

\* main: the loop is exhausted; creation_time = creation_start.elapsed()
TT_Built ==
    /\ variant = "timed" /\ pc = "build"
    /\ ~(i < num_nodes)
    /\ \E d \in 0..MaxTick :
         out' = Append(out, Line("creation_time", d, 0))
    /\ trace' = Append(trace, Event("creation_elapsed", 0))
    /\ pc' = "call"
    /\ UNCHANGED <<variant, args, exit_code, num_nodes, list, nodes, i, current,
                   visited_count, start_cycles, end_cycles, ret, err, results>>

\* traverse_and_time: start_time = Instant::now(); current = &self.head
TT_Start ==
    /\ variant = "timed" /\ pc = "call"
    /\ trace' = Append(trace, Event("start_time", 0))
    /\ current' = list.head
    /\ visited_count' = 0
    /\ pc' = "loop"
    /\ UNCHANGED <<variant, args, exit_code, num_nodes, list, nodes, i,
                   start_cycles, end_cycles, ret, out, err, results>>

\* the loop advancing two links per iteration
TT_Visit_skip ==
    /\ variant = "timed" /\ pc = "loop"
    /\ current # 0
    /\ visited_count' = visited_count + 1
    /\ current' = IF nodes[current].next = 0 THEN 0
                  ELSE nodes[nodes[current].next].next
    /\ trace' = Append(trace, Event("visit", current))
    /\ UNCHANGED <<variant, args, pc, exit_code, num_nodes, list, nodes, i,
                   start_cycles, end_cycles, ret, out, err, results>>

\* traverse_and_time: while let Some(node) = current { ... }, one iteration
TT_Visit ==
    /\ variant = "timed" /\ pc = "loop"
    /\ current # 0
    /\ visited_count' = visited_count + 1
    /\ current' = nodes[current].next
    /\ trace' = Append(trace, Event("visit", current))
    /\ UNCHANGED <<variant, args, pc, exit_code, num_nodes, list, nodes, i,
                   start_cycles, end_cycles, ret, out, err, results>>

\* traverse_and_time: current is None; elapsed_time = start_time.elapsed()
TT_Elapsed ==
    /\ variant = "timed" /\ pc = "loop"
    /\ current = 0
    /\ \E d \in 0..MaxTick :
         ret' = [visited |-> visited_count, time |-> d, cycles |-> 0]
    /\ trace' = Append(trace, Event("elapsed", 0))
    /\ pc' = "returned"
    /\ UNCHANGED <<variant, args, exit_code, num_nodes, list, nodes, i, current,
                   visited_count, start_cycles, end_cycles, out, err, results>>

\* the report with the branches of visited == num_nodes exchanged
TT_ReportLines_swapped(visited, time) ==
    <<Line("results_header", 0, 0)>>
    \o (IF visited # num_nodes
        THEN <<Line("success", visited, 0)>>
        ELSE <<Line("mismatch", num_nodes, visited)>>)
    \o <<Line("total_time", time, 0)>>
    \o (IF visited > 0
        THEN <<Line("time_per_node", time, visited)>>
        ELSE <<>>)

\* main: the lines printed after the traversal returned
TT_ReportLines(visited, time) ==
    <<Line("results_header", 0, 0)>>
    \o (IF visited = num_nodes
        THEN <<Line("success", visited, 0)>>
        ELSE <<Line("mismatch", num_nodes, visited)>>)
    \o <<Line("total_time", time, 0)>>
    \o (IF visited > 0
        THEN <<Line("time_per_node", time, visited)>>
        ELSE <<>>)

TT_Report ==
    /\ variant = "timed" /\ pc = "returned"
    /\ out' = out \o TT_ReportLines(ret.visited, ret.time)
    /\ pc' = "done"
    /\ exit_code' = 0
    /\ UNCHANGED <<variant, args, num_nodes, list, nodes, i, current,
                   visited_count, start_cycles, end_cycles, ret, err, trace, results>>

\* ================================================================ main.rs
\* main: args.len() < 2
BM_Usage ==
    /\ variant = "cycles" /\ pc = "main"
    /\ Len(args) < 2
    /\ out' = Append(out, Line("usage", 0, 0))
    /\ pc' = "done"
    /\ exit_code' = 0
    /\ UNCHANGED <<variant, args, num_nodes, list, nodes, i, current,
                   visited_count, start_cycles, end_cycles, ret, err, trace, results>>

\* unwrap_or that yields 0 instead of the default
unwrap_or_zero(r, default) == IF r.ok THEN r.val ELSE 0

\* args[1].parse().unwrap_or(100_000)
unwrap_or(r, default) == IF r.ok THEN r.val ELSE default

\* main: num_nodes = args[1].parse().unwrap_or(100_000)
BM_Parse ==
    /\ variant = "cycles" /\ pc = "main"
    /\ Len(args) >= 2
    /\ num_nodes' = unwrap_or(parse(args[2]), DEFAULT_NODES)
    /\ pc' = "create"
    /\ UNCHANGED <<variant, args, exit_code, list, nodes, i, current,
                   visited_count, start_cycles, end_cycles, ret, out, err, trace, results>>

\* main: list = LinkedList::new()
BM_Create ==
    /\ variant = "cycles" /\ pc = "create"
    /\ trace' = Append(trace, Event("new", 0))
    /\ list' = new
    /\ i' = 0
    /\ pc' = "build"
    /\ UNCHANGED <<variant, args, exit_code, num_nodes, nodes, current,
                   visited_count, start_cycles, end_cycles, ret, out, err, results>>

\* main: for i in 0..num_nodes { list.push(i) }, one iteration
BM_Push ==
    /\ variant = "cycles" /\ pc = "build"
    /\ i < num_nodes
    /\ i < MaxPush
    /\ nodes' = push(list, nodes, i).heap
    /\ list' = push(list, nodes, i).list
    /\ trace' = Append(trace, Event("push", i))
    /\ i' = i + 1
    /\ UNCHANGED <<variant, args, pc, exit_code, num_nodes, current,
                   visited_count, start_cycles, end_cycles, ret, out, err, results>>

\* main: the loop is exhausted; the banner and the list size are printed
BM_Built ==
    /\ variant = "cycles" /\ pc = "build"
    /\ ~(i < num_nodes)
    /\ out' = out \o <<Line("banner", 0, 0), Line("list_size", num_nodes, 0)>>
    /\ pc' = "call"
    /\ UNCHANGED <<variant, args, exit_code, num_nodes, list, nodes, i, current,
                   visited_count, start_cycles, end_cycles, ret, err, trace, results>>

\* benchmark_traversal: start_time = Instant::now(); current = &self.head
BM_Start ==
    /\ variant = "cycles" /\ pc = "call"
    /\ trace' = Append(trace, Event("start_time", 0))
    /\ current' = list.head
    /\ visited_count' = 0
    /\ pc' = "fence1"
    /\ UNCHANGED <<variant, args, exit_code, num_nodes, list, nodes, i,
                   start_cycles, end_cycles, ret, out, err, results>>

\* benchmark_traversal: _mm_lfence() before the first _rdtsc()
BM_Fence1 ==
    /\ variant = "cycles" /\ pc = "fence1"
    /\ trace' = Append(trace, Event("lfence", 0))
    /\ pc' = "rdtsc1"
    /\ UNCHANGED <<variant, args, exit_code, num_nodes, list, nodes, i, current,
                   visited_count, start_cycles, end_cycles, ret, out, err, results>>

\* benchmark_traversal: start_cycles = _rdtsc()
BM_Rdtsc1 ==
    /\ variant = "cycles" /\ pc = "rdtsc1"
    /\ \E c \in 0..MaxTick : start_cycles' = c
    /\ trace' = Append(trace, Event("rdtsc", 0))
    /\ pc' = "loop"
    /\ UNCHANGED <<variant, args, exit_code, num_nodes, list, nodes, i, current,
                   visited_count, end_cycles, ret, out, err, results>>

\* the loop taking each node out of the list as it passes
BM_Visit_consume ==
    /\ variant = "cycles" /\ pc = "loop"
    /\ current # 0
    /\ visited_count' = visited_count + 1
    /\ current' = nodes[current].next
    /\ list' = [head |-> nodes[current].next, count |-> list.count - 1]
    /\ trace' = Append(trace, Event("visit", current))
    /\ UNCHANGED <<variant, args, pc, exit_code, num_nodes, nodes, i,
                   start_cycles, end_cycles, ret, out, err, results>>

\* benchmark_traversal: while let Some(node) = current { ... }, one iteration
BM_Visit ==
    /\ variant = "cycles" /\ pc = "loop"
    /\ current # 0
    /\ visited_count' = visited_count + 1
    /\ current' = nodes[current].next
    /\ trace' = Append(trace, Event("visit", current))
    /\ UNCHANGED <<variant, args, pc, exit_code, num_nodes, list, nodes, i,
                   start_cycles, end_cycles, ret, out, err, results>>

\* the closing fence taken without waiting for the end of the list
BM_Fence2_early ==
    /\ variant = "cycles" /\ pc = "loop"
    /\ trace' = Append(trace, Event("lfence", 0))
    /\ pc' = "rdtsc2"
    /\ UNCHANGED <<variant, args, exit_code, num_nodes, list, nodes, i, current,
                   visited_count, start_cycles, end_cycles, ret, out, err, results>>

\* benchmark_traversal: current is None; _mm_lfence() before the last _rdtsc()
BM_Fence2 ==
    /\ variant = "cycles" /\ pc = "loop"
    /\ current = 0
    /\ trace' = Append(trace, Event("lfence", 0))
    /\ pc' = "rdtsc2"
    /\ UNCHANGED <<variant, args, exit_code, num_nodes, list, nodes, i, current,
                   visited_count, start_cycles, end_cycles, ret, out, err, results>>

\* benchmark_traversal: end_cycles = _rdtsc(); the counter does not run backwards
BM_Rdtsc2 ==
    /\ variant = "cycles" /\ pc = "rdtsc2"
    /\ \E c \in start_cycles..MaxTick : end_cycles' = c
    /\ trace' = Append(trace, Event("rdtsc", 0))
    /\ pc' = "elapsed"
    /\ UNCHANGED <<variant, args, exit_code, num_nodes, list, nodes, i, current,
                   visited_count, start_cycles, ret, out, err, results>>

\* benchmark_traversal: elapsed_time = start_time.elapsed();
\* elapsed_cycles = end_cycles - start_cycles
BM_Elapsed ==
    /\ variant = "cycles" /\ pc = "elapsed"
    /\ \E d \in 0..MaxTick :
         ret' = [visited |-> visited_count, time |-> d,
                 cycles |-> end_cycles - start_cycles]
    /\ trace' = Append(trace, Event("elapsed", 0))
    /\ pc' = "returned"
    /\ UNCHANGED <<variant, args, exit_code, num_nodes, list, nodes, i, current,
                   visited_count, start_cycles, end_cycles, out, err, results>>

\* the report with the visited > 0 test left out
BM_ReportLines_unguarded(visited, time, cycles) ==
    <<Line("results_header", 0, 0),
      Line("total_time", time, 0),
      Line("total_cycles", cycles, 0),
      Line("metrics_header", 0, 0),
      Line("time_per_node", time, visited),
      Line("cycles_per_node", cycles, visited),
      Line("effective_speed", cycles, time)>>

\* main: the lines printed after the traversal returned
BM_ReportLines(visited, time, cycles) ==
    <<Line("results_header", 0, 0),
      Line("total_time", time, 0),
      Line("total_cycles", cycles, 0)>>
    \o (IF visited > 0
        THEN <<Line("metrics_header", 0, 0),
               Line("time_per_node", time, visited),
               Line("cycles_per_node", cycles, visited),
               Line("effective_speed", cycles, time)>>
        ELSE <<>>)

BM_Report ==
    /\ variant = "cycles" /\ pc = "returned"
    /\ out' = out \o BM_ReportLines(ret.visited, ret.time, ret.cycles)
    /\ pc' = "done"
    /\ exit_code' = 0
    /\ UNCHANGED <<variant, args, num_nodes, list, nodes, i, current,
                   visited_count, start_cycles, end_cycles, ret, err, trace, results>>

\* ------------------------------------------------------------------ Spec
Next ==
    \/ TT_Usage \/ TT_ParseOk \/ TT_ParseErr \/ TT_Create \/ TT_Push
    \/ TT_Built \/ TT_Start \/ TT_Visit \/ TT_Elapsed \/ TT_Report
    \/ BM_Usage \/ BM_Parse \/ BM_Create \/ BM_Push \/ BM_Built
    \/ BM_Start \/ BM_Fence1 \/ BM_Rdtsc1 \/ BM_Visit \/ BM_Fence2
    \/ BM_Rdtsc2 \/ BM_Elapsed \/ BM_Report

Spec == Init /\ [][Next]_vars

\* ================================================= the API under a caller
\* SpecLib: a caller that owns one list, pushes arbitrary values and runs
\* either traversal any number of times.
InitLib ==
    /\ variant = "timed"
    /\ args = <<"prog">>
    /\ pc = "unbound"
    /\ exit_code = -1
    /\ num_nodes = 0
    /\ list = Unbound
    /\ nodes = <<>>
    /\ i = 0
    /\ current = 0
    /\ visited_count = 0
    /\ start_cycles = 0
    /\ end_cycles = 0
    /\ ret = [visited |-> 0, time |-> 0, cycles |-> 0]
    /\ out = <<>>
    /\ err = <<>>
    /\ trace = <<>>
    /\ results = <<>>

\* LinkedList::new()
Lib_New ==
    /\ pc = "unbound"
    /\ list' = new
    /\ pc' = "idle"
    /\ UNCHANGED <<variant, args, exit_code, num_nodes, nodes, i, current,
                   visited_count, start_cycles, end_cycles, ret, out, err, trace, results>>

\* list.push(v)
Lib_Push ==
    /\ pc = "idle"
    /\ list.count < MaxLibNodes
    /\ \E v \in Values :
         /\ nodes' = push(list, nodes, v).heap
         /\ list' = push(list, nodes, v).list
         /\ trace' = Append(trace, Event("push", v))
    /\ results' = <<>>
    /\ UNCHANGED <<variant, args, pc, exit_code, num_nodes, i, current,
                   visited_count, start_cycles, end_cycles, ret, out, err>>

\* the caller enters list.traverse_and_time() or list.benchmark_traversal()
Lib_Call ==
    /\ pc = "idle"
    /\ Len(results) < MaxCalls
    /\ \E v \in {"timed", "cycles"} : variant' = v
    /\ trace' = <<>>
    /\ pc' = "call"
    /\ UNCHANGED <<args, exit_code, num_nodes, list, nodes, i, current,
                   visited_count, start_cycles, end_cycles, ret, out, err, results>>

\* the caller takes the returned tuple
Lib_Return ==
    /\ pc = "returned"
    /\ results' = Append(results, ret.visited)
    /\ pc' = "idle"
    /\ UNCHANGED <<variant, args, exit_code, num_nodes, list, nodes, i, current,
                   visited_count, start_cycles, end_cycles, ret, out, err, trace>>

NextLib ==
    \/ Lib_New \/ Lib_Push \/ Lib_Call \/ Lib_Return
    \/ TT_Start \/ TT_Visit \/ TT_Elapsed
    \/ BM_Start \/ BM_Fence1 \/ BM_Rdtsc1 \/ BM_Visit \/ BM_Fence2
    \/ BM_Rdtsc2 \/ BM_Elapsed

SpecLib == InitLib /\ [][NextLib]_vars

\* ================================================================ claims
RECURSIVE Chain(_, _)
\* the addresses met by following next from p, at most fuel of them
Chain(p, fuel) ==
    IF p = 0 \/ fuel = 0 THEN <<>>
    ELSE <<p>> \o Chain(nodes[p].next, fuel - 1)

\* the nodes reachable from the head, in link order
Reachable == Chain(list.head, Len(nodes) + 1)

\* the addresses of the visit events of the trace, in order
Visits == SelectSeq(trace, LAMBDA e : e.ev = "visit")
VisitAddrs == [k \in 1..Len(Visits) |-> Visits[k].x]

Indices(e) == {k \in DOMAIN trace : trace[k].ev = e}

\* C1: whenever the list exists, count is the number of nodes reachable from
\* head by next links (the walk ends at None), and right after new() the
\* list has head = None and count = 0.
C1_CountIsChainLength ==
    list # Unbound =>
        /\ list.count = Len(Reachable)
        /\ Len(Reachable) <= Len(nodes)
        /\ (pc = "build" /\ i = 0 => list.head = 0 /\ list.count = 0)

C1_Witness ==
    variant = "cycles" /\ pc = "build" /\ list.count = 3 /\ Len(Reachable) = 3

\* C2: a list built by N pushes is traversed with a returned visited count
\* of exactly N, every node of the list being visited exactly once.
C2_TraversalVisitsN ==
    pc = "returned" =>
        /\ ret.visited = num_nodes
        /\ Len(VisitAddrs) = num_nodes
        /\ \A a \in 1..num_nodes :
             Cardinality({k \in 1..Len(VisitAddrs) : VisitAddrs[k] = a}) = 1

C2_Witness ==
    pc = "returned" /\ variant = "cycles" /\ num_nodes = 5 /\ ret.visited = 5

\* C3: after pushing 0, 1, ..., N-1 the walk from head meets the data values
\* N-1, N-2, ..., 0.
C3_ReverseInsertionOrder ==
    pc = "returned" =>
        /\ Len(VisitAddrs) = num_nodes
        /\ \A k \in 1..Len(VisitAddrs) : nodes[VisitAddrs[k]].data = num_nodes - k

C3_Witness ==
    pc = "returned" /\ variant = "timed" /\ num_nodes = 4
    /\ [k \in 1..4 |-> nodes[VisitAddrs[k]].data] = <<3, 2, 1, 0>>

TraversalPcs == {"call", "fence1", "rdtsc1", "loop", "rdtsc2", "elapsed", "returned"}

\* C4: no step of a traversal changes head, count or any node, and all
\* traversals of the same list return the same visited count.
C4_TraversalDoesNotMutate ==
    /\ [][(pc \in TraversalPcs) => (list' = list /\ nodes' = nodes)]_vars
    /\ [](\A j, k \in DOMAIN results : results[j] = results[k])

C4_Witness ==
    pc = "idle" /\ list.count = 3 /\ results = <<3, 3>>

\* C5: a push makes a new node the head, with the pushed value as data and the
\* previous head as successor; every older node and the chain they form are
\* unchanged, count grows by exactly 1, and the caller carries on.
C5_PushFrame ==
    [][(nodes' # nodes) =>
         /\ Len(trace') = Len(trace) + 1
         /\ trace'[Len(trace')].ev = "push"
         /\ list'.head \notin DOMAIN nodes
         /\ list'.head \in DOMAIN nodes'
         /\ nodes'[list'.head].data = trace'[Len(trace')].x
         /\ nodes'[list'.head].next = list.head
         /\ \A a \in DOMAIN nodes : nodes'[a] = nodes[a]
         /\ Reachable' = <<list'.head>> \o Reachable
         /\ list'.count = list.count + 1
         /\ pc' = pc /\ exit_code' = exit_code]_vars

C5_Witness ==
    pc = "idle" /\ list.count = 3 /\ Reachable = <<3, 2, 1>>
    /\ nodes[3].data = 1 /\ nodes[2].data = 0 /\ nodes[1].data = 1

MetricMsgs == {"metrics_header", "time_per_node", "cycles_per_node", "effective_speed"}
Metrics == SelectSeq(out, LAMBDA l : l.msg \in MetricMsgs)

\* C6: derived metrics are printed only when the visited count is positive,
\* their per-node divisions have a positive divisor, and a run with N = 0
\* ends normally with 0 nodes visited and no derived metric (so no division).
C6_MetricsOnlyWhenVisited ==
    /\ Metrics # <<>> => ret.visited > 0
    /\ \A k \in DOMAIN out :
         out[k].msg \in {"time_per_node", "cycles_per_node"}
            => out[k].b = ret.visited /\ out[k].b > 0
    /\ (pc = "done" /\ list # Unbound /\ num_nodes = 0)
         => ret.visited = 0 /\ Metrics = <<>> /\ exit_code = 0

C6_Witness ==
    pc = "done" /\ variant = "cycles" /\ list = new /\ num_nodes = 0
    /\ ret.visited = 0 /\ exit_code = 0

\* C7: with no positional argument either program ends with status 0, a
\* usage message on the error stream, and no list, node or traversal.
C7_UsageOnStderr ==
    (Len(args) < 2 /\ pc # "main") =>
        /\ pc = "done" /\ exit_code = 0
        /\ \E k \in DOMAIN err : err[k].msg = "usage"
        /\ list = Unbound /\ nodes = <<>> /\ trace = <<>>

InvalidArg == Len(args) >= 2 /\ ~parse(args[2]).ok

C10_TimersBracketTraversal ==
    /\ Cardinality(Indices("start_time")) <= 1
    /\ Cardinality(Indices("elapsed")) <= 1
    /\ \A v \in Indices("visit") :
         /\ \E s \in Indices("start_time") : s < v
         /\ \A e \in Indices("elapsed") : v < e
    /\ \A p \in Indices("push") \cup Indices("new") :
         \A s \in Indices("start_time") : p < s
    /\ \A e \in Indices("elapsed") :
         current = 0 /\ Len(Visits) = list.count /\ e = Len(trace)
    /\ variant = "cycles" =>
         /\ Cardinality(Indices("rdtsc")) <= 2
         /\ \A r \in Indices("rdtsc") : r > 1 /\ trace[r - 1].ev = "lfence"
         /\ \A f \in Indices("lfence") :
              IF f = Len(trace) THEN pc \in {"rdtsc1", "rdtsc2"}
              ELSE trace[f + 1].ev = "rdtsc"
         /\ \A v \in Indices("visit") :
              \E s \in Indices("start_time") :
                 /\ s + 2 < v
                 /\ trace[s + 1].ev = "lfence" /\ trace[s + 2].ev = "rdtsc"
         /\ \A f \in Indices("lfence") :
              (\E r \in Indices("rdtsc") : r < f) =>
                 /\ \A v \in Indices("visit") : v < f
                 /\ current = 0 /\ Len(Visits) = list.count
         /\ \A e \in Indices("elapsed") :
              e > 2 /\ trace[e - 1].ev = "rdtsc" /\ trace[e - 2].ev = "lfence"

C10_Witness ==
    variant = "cycles" /\ pc = "returned" /\ num_nodes = 3
    /\ Len(Visits) = 3 /\ Cardinality(Indices("rdtsc")) = 2

====
